---------------------------- MODULE Spec2Model ----------------------------
(***************************************************************************)
(* A model of try_gif.py: a folder of still images is collected in        *)
(* natural-sort order, every image is letterboxed onto one canvas, and    *)
(* the frames are written as one animated GIF.                            *)
(*                                                                        *)
(* Strings are sequences of code points (97 = "a", 65 = "A", 48 = "0",    *)
(* 46 = ".", 47 = "/"), so that str comparison, str.lower, str.isdigit    *)
(* and int() are computed as Python computes them.                        *)
(***************************************************************************)
EXTENDS Integers, Sequences, FiniteSets

VARIABLES
    pc,          \* position of the running call
    input_dir,   \* argument input_dir
    listing,     \* the directory's files, in the order the file system enumerates them
    paths,       \* result of collect_image_paths
    img,         \* size <<w, h>> of the image in hand
    size,        \* argument size / target_size: <<width, height>> or None
    keep_aspect, \* argument keep_aspect of fit_to_canvas
    frames,      \* the frames made so far
    call,        \* the function the caller called
    fps,         \* argument fps: None or the fraction <<numerator, denominator>>
    arg_duration_ms, \* argument duration_ms as the caller passed it: None or <<milliseconds>>
    duration_ms, \* local duration_ms: None or <<milliseconds>>
    loop,        \* argument loop
    base_size,   \* local base_size of load_frames
    pal_frames,  \* local pal_frames of save_gif
    output,      \* the file at the output path
    output0,     \* the file at the output path when the call began
    err,         \* the exception that ended the call
    opened,      \* how many times Image.open was called
    saves        \* how many times Image.save was called

sortVars == <<input_dir, listing, paths>>
fitVars == <<img, size, keep_aspect, frames>>
argVars == <<call, fps, arg_duration_ms, loop, output0>>
runVars == <<duration_ms, base_size, pal_frames, output, err, opened, saves>>

vars == <<pc, sortVars, fitVars, argVars, runVars>>

\* None, and an optional int: None or <<value>>
None == <<>>

Some(x) == <<x>>

\* the file at the output path: none, the file of an earlier run, a file being
\* written, or a complete GIF (GifFile below)
AbsentFile == [state |-> "absent"]
OldFile == [state |-> "old"]
PartialFile == [state |-> "partial"]

\* the variables a call does not use keep these values
NoSort == input_dir = <<>> /\ listing = <<>> /\ paths = <<>>

NoFit == img = None /\ size = None /\ keep_aspect = TRUE /\ frames = <<>>

NoRun ==
    /\ call = "none" /\ fps = None /\ arg_duration_ms = None /\ loop = 0
    /\ output0 = AbsentFile /\ duration_ms = None /\ base_size = None
    /\ pal_frames = <<>> /\ output = AbsentFile /\ err = "none"
    /\ opened = 0 /\ saves = 0

-----------------------------------------------------------------------------
(* Bounds of the model *)

\* the stems of one directory's file names hold at most MaxChars characters together
MaxChars == 3

\* images and canvases are at most MaxDim pixels wide and high
MaxDim == 15

\* fps is a multiple of 1/2 up to MaxFpsHalves / 2
MaxFpsHalves == 7

\* save_gif is called with at most MaxFrames frames
MaxFrames == 2

-----------------------------------------------------------------------------
(* Strings *)

StemChars == {97, 65, 48, 49, 50}

RECURSIVE StringsUpTo(_)
StringsUpTo(n) ==
    IF n = 0 THEN {<<>>}
    ELSE LET shorter == StringsUpTo(n - 1)
         IN  shorter \cup {Append(s, c) : s \in shorter, c \in StemChars}

Stems == StringsUpTo(MaxChars) \ {<<>>}

ExtPng == <<46, 112, 110, 103>>
ExtJpg == <<46, 106, 112, 103>>
ExtTxt == <<46, 116, 120, 116>>

Exts == {ExtPng, ExtJpg, ExtTxt}

FileNames == {stem \o ext : stem \in Stems, ext \in Exts}

InputDirs == {<<>>, <<100, 49>>}

IsDigit(c) == c \in 48..57

Lower(c) == IF c \in 65..90 THEN c + 32 ELSE c

LowerStr(s) == [k \in 1..Len(s) |-> Lower(s[k])]

\* str < str: the first differing code point decides, a proper prefix is smaller
RECURSIVE StrLess(_, _)
StrLess(s, t) ==
    IF t = <<>> THEN FALSE
    ELSE IF s = <<>> THEN TRUE
    ELSE IF Head(s) # Head(t) THEN Head(s) < Head(t)
    ELSE StrLess(Tail(s), Tail(t))

\* int(text) of a run of decimal digits
RECURSIVE IntOf(_)
IntOf(text) ==
    IF text = <<>> THEN 0
    ELSE 10 * IntOf(SubSeq(text, 1, Len(text) - 1)) + (text[Len(text)] - 48)

\* text.isdigit()
IsDigitStr(text) == text # <<>> /\ \A k \in 1..Len(text) : IsDigit(text[k])

\* length of the longest prefix of s made of digits (digit = TRUE) or of non-digits
RECURSIVE RunLen(_, _)
RunLen(s, digit) ==
    IF s = <<>> \/ IsDigit(Head(s)) # digit THEN 0
    ELSE 1 + RunLen(Tail(s), digit)

\* re.split(r'(\d+)', s): non-digit run, digit run, non-digit run, ...; the
\* first and the last piece are non-digit runs, empty when s starts or ends
\* with a digit
RECURSIVE SplitDigits(_)
SplitDigits(s) ==
    LET n == RunLen(s, FALSE)
        rest == SubSeq(s, n + 1, Len(s))
        d == RunLen(rest, TRUE)
    IN  IF rest = <<>> THEN <<SubSeq(s, 1, n)>>
        ELSE <<SubSeq(s, 1, n), SubSeq(rest, 1, d)>>
             \o SplitDigits(SubSeq(rest, d + 1, Len(rest)))

KeyElem_NoInt(text) == [num |-> FALSE, v |-> LowerStr(text)]

\* one element of the key: an int for a digit run, the lowercased text otherwise
KeyElem(text) ==
    IF IsDigitStr(text) THEN [num |-> TRUE, v |-> IntOf(text)]
    ELSE [num |-> FALSE, v |-> LowerStr(text)]

natural_sort_key(s) ==
    LET pieces == SplitDigits(s)
    IN  [k \in 1..Len(pieces) |-> KeyElem(pieces[k])]

\* x < y for two key elements: int with int, str with str (the keys alternate
\* str, int, str, ..., so an int never meets a str at the same index)
ElemLess(x, y) ==
    IF x.num /\ y.num THEN x.v < y.v
    ELSE IF ~x.num /\ ~y.num THEN StrLess(x.v, y.v)
    ELSE FALSE

\* list < list
RECURSIVE KeyLess(_, _)
KeyLess(a, b) ==
    IF b = <<>> THEN FALSE
    ELSE IF a = <<>> THEN TRUE
    ELSE IF Head(a) # Head(b) THEN ElemLess(Head(a), Head(b))
    ELSE KeyLess(Tail(a), Tail(b))

\* sorted(seq, key=natural_sort_key): a stable sort, equal keys keep their order
RECURSIVE InsertByKey(_, _)
InsertByKey(sorted, p) ==
    IF sorted = <<>> THEN <<p>>
    ELSE IF KeyLess(natural_sort_key(p), natural_sort_key(Head(sorted)))
         THEN <<p>> \o sorted
         ELSE <<Head(sorted)>> \o InsertByKey(Tail(sorted), p)

RECURSIVE SortedByKey(_)
SortedByKey(seq) ==
    IF seq = <<>> THEN <<>>
    ELSE InsertByKey(SortedByKey(SubSeq(seq, 1, Len(seq) - 1)), seq[Len(seq)])

-----------------------------------------------------------------------------
(* The file system and glob *)

\* os.path.join(dir, name)
PathJoin(dir, name) ==
    IF dir = <<>> THEN name
    ELSE IF dir[Len(dir)] = 47 THEN dir \o name
    ELSE dir \o <<47>> \o name

EndsWith(s, suffix) ==
    /\ Len(s) >= Len(suffix)
    /\ SubSeq(s, Len(s) - Len(suffix) + 1, Len(s)) = suffix

\* the default patterns, written as the suffix each '*<suffix>' asks for
Patterns ==
    << ExtPng, ExtJpg, <<46, 106, 112, 101, 103>>, <<46, 98, 109, 112>>,
       <<46, 119, 101, 98, 112>> >>

\* glob.glob(os.path.join(dir, '*' + suffix)): the matching files, joined to
\* dir, in the order the file system enumerates them
Glob(dir, files, suffix) ==
    LET hit(name) == EndsWith(name, suffix) /\ name[1] # 46
        RECURSIVE Pick(_)
        Pick(fs) ==
            IF fs = <<>> THEN <<>>
            ELSE (IF hit(Head(fs)) THEN <<PathJoin(dir, Head(fs))>> ELSE <<>>)
                 \o Pick(Tail(fs))
    IN  Pick(files)

RECURSIVE GlobAll(_, _, _)
GlobAll(dir, files, pats) ==
    IF pats = <<>> THEN <<>>
    ELSE Glob(dir, files, Head(pats)) \o GlobAll(dir, files, Tail(pats))

collect_image_paths(dir, files) == SortedByKey(GlobAll(dir, files, Patterns))

\* the file names whose stem has k characters
NamesByLen == [k \in 1..MaxChars |-> {f \in FileNames : Len(f) - Len(ExtPng) = k}]

\* the characters the stems of a listing hold together
RECURSIVE StemChars_Used(_)
StemChars_Used(files) ==
    IF files = <<>> THEN 0
    ELSE Len(Head(files)) - Len(ExtPng) + StemChars_Used(Tail(files))

-----------------------------------------------------------------------------
(* Python floats: IEEE 754 binary64, round to nearest, ties to even.  A float *)
(* is its sign, its exponent e and the MantBits bits m of its significand,    *)
(* most significant bit first: the value is sgn * (m[1].m[2]m[3]...) * 2^e.   *)

MantBits == 53

FloatZero == [sgn |-> 0, e |-> 0, m |-> <<>>]

Sign(x) == IF x > 0 THEN 1 ELSE IF x < 0 THEN -1 ELSE 0

Abs(x) == IF x < 0 THEN -x ELSE x

\* m + 1 on a bit sequence; all ones give all zeros
RECURSIVE IncBits(_)
IncBits(m) ==
    IF m = <<>> THEN <<>>
    ELSE IF m[Len(m)] = 0 THEN SubSeq(m, 1, Len(m) - 1) \o <<1>>
    ELSE IncBits(SubSeq(m, 1, Len(m) - 1)) \o <<0>>

\* the significand m, rounded up when up holds; a carry out of the top bit
\* gives 1.000... at the next exponent
Rounded(sgn, e, m, up) ==
    IF ~up THEN [sgn |-> sgn, e |-> e, m |-> m]
    ELSE IF \A k \in 1..Len(m) : m[k] = 1
         THEN [sgn |-> sgn, e |-> e + 1, m |-> <<1>> \o [k \in 1..(Len(m) - 1) |-> 0]]
         ELSE [sgn |-> sgn, e |-> e, m |-> IncBits(m)]

\* long division: the next n bits of x / y for x < 2y, and what remains
RECURSIVE DivBits(_, _, _, _)
DivBits(x, y, n, acc) ==
    IF n = 0 THEN [m |-> acc, rem |-> x]
    ELSE IF x >= y THEN DivBits(2 * (x - y), y, n - 1, Append(acc, 1))
    ELSE DivBits(2 * x, y, n - 1, Append(acc, 0))

\* x / y scaled by a power of two into [1, 2), then divided and rounded
RECURSIVE DivScaled(_, _, _, _)
DivScaled(sgn, x, y, e) ==
    IF x < y THEN DivScaled(sgn, 2 * x, y, e - 1)
    ELSE IF x >= 2 * y THEN DivScaled(sgn, x, 2 * y, e + 1)
    ELSE LET q == DivBits(x, y, MantBits, <<>>)
         IN  Rounded(sgn, e, q.m,
                     q.rem > y \/ (q.rem = y /\ q.m[MantBits] = 1))

\* a / b for two ints (true division), b # 0
FloatDiv(a, b) ==
    IF a = 0 THEN FloatZero
    ELSE DivScaled(Sign(a) * Sign(b), Abs(a), Abs(b), 0)

\* the bits of a natural number, most significant first
RECURSIVE BitsOf(_)
BitsOf(n) == IF n = 0 THEN <<>> ELSE BitsOf(n \div 2) \o <<n % 2>>

\* the bits of m * n, from the least significant bit of m on
RECURSIVE MulBits(_, _, _, _)
MulBits(m, n, carry, acc) ==
    IF m = <<>> THEN BitsOf(carry) \o acc
    ELSE MulBits(SubSeq(m, 1, Len(m) - 1), n,
                 (m[Len(m)] * n + carry) \div 2,
                 <<(m[Len(m)] * n + carry) % 2>> \o acc)

\* a bit sequence of at least MantBits bits, cut to MantBits bits and rounded
RoundBits(sgn, e, bits) ==
    LET kept == SubSeq(bits, 1, MantBits)
        guard == Len(bits) > MantBits /\ bits[MantBits + 1] = 1
        sticky == \E k \in (MantBits + 2)..Len(bits) : bits[k] = 1
    IN  Rounded(sgn, e, kept, guard /\ (sticky \/ kept[MantBits] = 1))

\* n * f for an int n > 0 and a float f
FloatMul(n, f) ==
    IF f.sgn = 0 THEN FloatZero
    ELSE LET bits == MulBits(f.m, n, 0, <<>>)
         IN  RoundBits(f.sgn, f.e + (Len(bits) - MantBits), bits)

RECURSIVE BitsLess(_, _)
BitsLess(m, n) ==
    IF m = <<>> THEN FALSE
    ELSE IF Head(m) # Head(n) THEN Head(m) < Head(n)
    ELSE BitsLess(Tail(m), Tail(n))

MagnitudeLess(f, g) == f.e < g.e \/ (f.e = g.e /\ BitsLess(f.m, g.m))

\* f < g
FloatLess(f, g) ==
    IF f.sgn # g.sgn THEN f.sgn < g.sgn
    ELSE IF f.sgn = 0 THEN FALSE
    ELSE IF f.sgn > 0 THEN MagnitudeLess(f, g)
    ELSE MagnitudeLess(g, f)

\* min(f, g): the first argument unless the second is smaller
FloatMin(f, g) == IF FloatLess(g, f) THEN g ELSE f

RECURSIVE NatOfBits(_)
NatOfBits(bits) ==
    IF bits = <<>> THEN 0
    ELSE 2 * NatOfBits(SubSeq(bits, 1, Len(bits) - 1)) + bits[Len(bits)]

\* int(f): truncation toward zero
FloatToInt(f) ==
    IF f.sgn = 0 \/ f.e < 0 THEN 0
    ELSE f.sgn * NatOfBits(SubSeq(f.m, 1, f.e + 1))

Max(a, b) == IF a >= b THEN a ELSE b

-----------------------------------------------------------------------------
(* fit_to_canvas *)

\* Image.new(mode, size) refuses a negative width or height
ImageNewFails(sz) == sz[1] < 0 \/ sz[2] < 0

\* fit_to_canvas(image, target, keep): the frame it returns: its size, the
\* size of the resized image in it (box) and where that was pasted (offset)
fit_to_canvas(image, target, keep) ==
    IF keep
    THEN LET scale == FloatMin(FloatDiv(target[1], image[1]),
                               FloatDiv(target[2], image[2]))
             new_w == Max(1, FloatToInt(FloatMul(image[1], scale)))
             new_h == Max(1, FloatToInt(FloatMul(image[2], scale)))
         IN  IF ImageNewFails(target) THEN [err |-> "ValueError"]
             ELSE [err |-> "none",
                   size |-> target,
                   box |-> <<new_w, new_h>>,
                   offset |-> <<(target[1] - new_w) \div 2,
                                (target[2] - new_h) \div 2>>]
    ELSE [err |-> "none", size |-> target, box |-> target, offset |-> <<0, 0>>]

-----------------------------------------------------------------------------
(* Calls of fit_to_canvas alone *)

Dims == 1..MaxDim

InitFit ==
    /\ pc = "fit"
    /\ img \in Dims \X Dims
    /\ size \in Dims \X Dims
    /\ keep_aspect \in BOOLEAN
    /\ frames = <<>>
    /\ NoSort
    /\ NoRun

Fit ==
    /\ pc = "fit"
    /\ frames' = <<fit_to_canvas(img, size, keep_aspect)>>
    /\ pc' = "fitted"
    /\ UNCHANGED <<img, size, keep_aspect, sortVars, argVars, runVars>>

NextFit == Fit

SpecFit == InitFit /\ [][NextFit]_vars

\* floor(a / b) for b > 0, and whether a / b <= c / d for b, d > 0
LeqRatio(a, b, c, d) == a * d <= c * b

\* floor(x * min(W/w, H/h)) in exact arithmetic
ExactScaled(x, w, h, W, H) ==
    IF LeqRatio(W, w, H, h) THEN (x * W) \div w ELSE (x * H) \div h

\* C6: with keep_aspect the resized size is (max(1, floor(w*s)), max(1, floor(h*s)))
\* for s = min(W/w, H/h), it is at least 1 and at most the canvas in both
\* dimensions, and the paste offset is ((W - new_w) div 2, (H - new_h) div 2),
\* never negative.
C6_Letterbox ==
    (pc = "fitted" /\ keep_aspect) =>
        LET f == frames[1]
        IN  /\ f.err = "none"
            /\ f.box = << Max(1, ExactScaled(img[1], img[1], img[2], size[1], size[2])),
                          Max(1, ExactScaled(img[2], img[1], img[2], size[1], size[2])) >>
            /\ f.box[1] >= 1 /\ f.box[1] <= size[1]
            /\ f.box[2] >= 1 /\ f.box[2] <= size[2]
            /\ f.offset = <<(size[1] - f.box[1]) \div 2, (size[2] - f.box[2]) \div 2>>
            /\ f.offset[1] >= 0 /\ f.offset[2] >= 0

-----------------------------------------------------------------------------
(* Calls of collect_image_paths alone *)

InitSort ==
    /\ pc = "setup"
    /\ input_dir \in InputDirs
    /\ listing = <<>>
    /\ paths = <<>>
    /\ NoFit
    /\ NoRun

\* the environment puts one more file into the directory; the file system
\* enumerates the files in an order of its own, here the order of creation
CreateFile ==
    /\ pc = "setup"
    /\ \E k \in 1..(MaxChars - StemChars_Used(listing)) : \E name \in NamesByLen[k] :
          /\ \A i \in 1..Len(listing) : listing[i] # name
          /\ listing' = Append(listing, name)
    /\ UNCHANGED <<pc, input_dir, paths, fitVars, argVars, runVars>>

Collect ==
    /\ pc = "setup"
    /\ paths' = collect_image_paths(input_dir, listing)
    /\ pc' = "collected"
    /\ UNCHANGED <<input_dir, listing, fitVars, argVars, runVars>>

NextSort == CreateFile \/ Collect


SpecSort == InitSort /\ [][NextSort]_vars

\* every order in which the file system may enumerate a set of files
RECURSIVE Enumerations(_)
Enumerations(S) ==
    IF S = {} THEN {<<>>}
    ELSE UNION {{<<x>> \o e : e \in Enumerations(S \ {x})} : x \in S}

Range(seq) == {seq[k] : k \in 1..Len(seq)}

\* a decimal numeral as str() writes it: no leading zero
IsNumeral(text) == IsDigitStr(text) /\ (Len(text) = 1 \/ text[1] # 48)

\* x = p + a + s and y = p + b + s for a prefix p, a suffix s and numbers a < b
NumberedPair(x, y) ==
    \E k \in 0..Len(x) :
        /\ k < Len(y)
        /\ SubSeq(x, 1, k) = SubSeq(y, 1, k)
        /\ \E la \in 1..(Len(x) - k) :
              /\ IsNumeral(SubSeq(x, k + 1, k + la))
              /\ \E lb \in 1..(Len(y) - k) :
                    /\ Len(x) - la = Len(y) - lb
                    /\ IsNumeral(SubSeq(y, k + 1, k + lb))
                    /\ SubSeq(x, k + la + 1, Len(x)) = SubSeq(y, k + lb + 1, Len(y))
                    /\ IntOf(SubSeq(x, k + 1, k + la)) < IntOf(SubSeq(y, k + 1, k + lb))

JoinAll(dir, names) == [k \in 1..Len(names) |-> PathJoin(dir, names[k])]

MatchingFiles(files) ==
    {n \in Range(files) : \E k \in 1..Len(Patterns) : EndsWith(n, Patterns[k])}

\* C1: collect_image_paths returns exactly the matching files, no path's key is
\* below the key of a path before it, p+a+suffix comes before p+b+suffix for
\* numbers a < b, and the order is the one the file names alone give.
C1_NaturalOrder ==
    pc = "collected" =>
        /\ Len(paths) = Cardinality(MatchingFiles(listing))
        /\ Range(paths) = {PathJoin(input_dir, n) : n \in MatchingFiles(listing)}
        /\ \A i, j \in 1..Len(paths) :
              /\ i < j => ~KeyLess(natural_sort_key(paths[j]), natural_sort_key(paths[i]))
              /\ NumberedPair(paths[i], paths[j]) => i < j
        /\ paths = JoinAll(input_dir, collect_image_paths(<<>>, listing))

\* 10.png is enumerated before 2.png in directory d1 and comes out after it
C1_Witness ==
    /\ pc = "collected"
    /\ input_dir = <<100, 49>>
    /\ listing = <<(<<49, 48>> \o ExtPng), (<<50>> \o ExtPng)>>
    /\ paths = << <<100, 49, 47, 50>> \o ExtPng, <<100, 49, 47, 49, 48>> \o ExtPng >>

\* C10: the returned sequence is the same for every order in which the file
\* system may enumerate the same files.
C10_EnumerationIndependent ==
    pc = "collected" =>
        \A e \in Enumerations(Range(listing)) :
            collect_image_paths(input_dir, e) = paths

-----------------------------------------------------------------------------
(* make_gif_from_folder, load_frames and save_gif *)

\* the folders of the runs: empty, without any image, and with one to three
\* images enumerated out of order
FolderListings ==
    { <<>>,
      << <<97>> \o ExtTxt >>,
      << <<50>> \o ExtPng >>,
      << <<49, 48>> \o ExtPng, <<50>> \o ExtPng >>,
      << <<49, 48>> \o ExtPng, <<97>> \o ExtTxt, <<50>> \o ExtPng, <<49>> \o ExtJpg >> }

\* the pixel sizes an image file may have
ImageSizes == {<<5, 5>>, <<8, 4>>}

\* the values of argument size
SizeArgs == {None, <<6, 6>>, <<0, 5>>, <<-1, 5>>}

FpsArgs == {None} \cup {<<n, 2>> : n \in (-1)..MaxFpsHalves}

DurationArgs == {None, Some(1000)}

LoopArgs == {0, 1}

NoPaths_Never(ps) == FALSE

\* line 74: 'not paths'
NoPaths(ps) == ps = <<>>

NoFrames_Never(fs) == FALSE

\* line 48: 'not frames'
NoFrames(fs) == fs = <<>>

ResolveDuration_ExplicitFirst(f, d) ==
    IF d # None THEN d
    ELSE IF f # None /\ f[1] > 0 THEN Some(FloatToInt(FloatDiv(1000 * f[2], f[1])))
    ELSE Some(100)

\* lines 77-80: the duration in milliseconds
ResolveDuration(f, d) ==
    LET d1 == IF f # None /\ f[1] > 0
              THEN Some(FloatToInt(FloatDiv(1000 * f[2], f[1])))
              ELSE d
    IN  IF d1 = None THEN Some(100) ELSE d1

BaseSize_EveryImage(i, base, target, image) ==
    IF target # None THEN target ELSE image

\* 'target_size or img.size' on the first image, base_size kept afterwards
BaseSize(i, base, target, image) ==
    IF i = 0 THEN (IF target # None THEN target ELSE image) ELSE base

\* a frame of load_frames: the image of path p, fitted
Frame(p, image, fitted) ==
    [src |-> p, image |-> image, mode |-> "RGBA", size |-> fitted.size,
     box |-> fitted.box, offset |-> fitted.offset]

\* f.convert('P', palette=Image.ADAPTIVE, colors=256) for every frame
Quantized(fs) == [k \in 1..Len(fs) |-> [fs[k] EXCEPT !.mode = "P"]]

AppendImages_All(pal) == pal

\* pal_frames[1:]
AppendImages(pal) == Tail(pal)

\* the file pal_frames[0].save(..., save_all=True, append_images=..., duration=d,
\* loop=l, disposal=2) writes: the first frame, then the appended ones
GifFile(pal, d, l) ==
    LET all == <<pal[1]>> \o AppendImages(pal)
    IN  [state |-> "complete",
         frames |-> [k \in 1..Len(all) |->
                        [image |-> all[k], duration |-> d, disposal |-> 2]],
         loop |-> l]

SampleFrame(k) ==
    Frame(<<48 + k>> \o ExtPng, <<5, 5>>, fit_to_canvas(<<5, 5>>, <<6, 6>>, TRUE))

Init ==
    /\ output0 \in {AbsentFile, OldFile}
    /\ output = output0
    /\ loop \in LoopArgs
    /\ img = None
    /\ keep_aspect = TRUE
    /\ base_size = None
    /\ pal_frames = <<>>
    /\ err = "none"
    /\ opened = 0
    /\ saves = 0
    /\ paths = <<>>
    /\ \/ /\ call = "make_gif_from_folder"
          /\ pc = "start"
          /\ input_dir = <<100, 49>>
          /\ listing \in FolderListings
          /\ fps \in FpsArgs
          /\ arg_duration_ms \in DurationArgs
          /\ duration_ms = arg_duration_ms
          /\ size \in SizeArgs
          /\ frames = <<>>
       \/ /\ call = "save_gif"
          /\ pc = "save_gif"
          /\ input_dir = <<>>
          /\ listing = <<>>
          /\ fps = None
          /\ arg_duration_ms = Some(100)
          /\ duration_ms = arg_duration_ms
          /\ size = None
          /\ \E n \in 0..MaxFrames : frames = [k \in 1..n |-> SampleFrame(k)]

\* line 72: paths = collect_image_paths(input_dir)
MakeGifCollect ==
    /\ pc = "start"
    /\ paths' = collect_image_paths(input_dir, listing)
    /\ pc' = "check"
    /\ UNCHANGED <<input_dir, listing, fitVars, argVars, runVars>>

\* lines 74-75: no paths, FileNotFoundError
MakeGifNoImages ==
    /\ pc = "check"
    /\ NoPaths(paths)
    /\ err' = "FileNotFoundError"
    /\ pc' = "failed"
    /\ UNCHANGED <<sortVars, fitVars, argVars, duration_ms, base_size, pal_frames,
                   output, opened, saves>>

\* lines 74-81: there are paths; the duration is resolved and load_frames is called
MakeGifDuration ==
    /\ pc = "check"
    /\ ~NoPaths(paths)
    /\ duration_ms' = ResolveDuration(fps, duration_ms)
    /\ pc' = "load"
    /\ UNCHANGED <<sortVars, fitVars, argVars, base_size, pal_frames, output, err,
                   opened, saves>>

\* lines 38-39: Image.open(p).convert('RGBA') of the next path: an image of
\* some size
LoadOpen ==
    /\ pc = "load"
    /\ Len(frames) < Len(paths)
    /\ opened' = opened + 1
    /\ img' \in ImageSizes
    /\ pc' = "fit"
    /\ UNCHANGED <<sortVars, size, keep_aspect, frames, argVars, duration_ms,
                   base_size, pal_frames, output, err, saves>>

\* line 39: the file is no image Image.open can read
LoadOpenFails ==
    /\ pc = "load"
    /\ Len(frames) < Len(paths)
    /\ opened' = opened + 1
    /\ err' = "UnidentifiedImageError"
    /\ pc' = "failed"
    /\ UNCHANGED <<sortVars, fitVars, argVars, duration_ms, base_size, pal_frames,
                   output, saves>>

\* lines 40-44: base_size on the first image, fit_to_canvas, frames.append
LoadFit ==
    /\ pc = "fit"
    /\ base_size' = BaseSize(Len(frames), base_size, size, img)
    /\ LET fitted == fit_to_canvas(img, base_size', TRUE)
       IN  IF fitted.err # "none"
           THEN /\ err' = fitted.err
                /\ pc' = "failed"
                /\ frames' = frames
           ELSE /\ frames' = Append(frames, Frame(paths[Len(frames) + 1], img, fitted))
                /\ pc' = "load"
                /\ err' = err
    /\ UNCHANGED <<sortVars, img, size, keep_aspect, argVars, duration_ms,
                   pal_frames, output, opened, saves>>

\* lines 45, 81-82: load_frames returns and save_gif is called
LoadReturn ==
    /\ pc = "load"
    /\ Len(frames) = Len(paths)
    /\ pc' = "save_gif"
    /\ UNCHANGED <<sortVars, fitVars, argVars, runVars>>

\* lines 48-49: no frames, ValueError
SaveGifNoFrames ==
    /\ pc = "save_gif"
    /\ NoFrames(frames)
    /\ err' = "ValueError"
    /\ pc' = "failed"
    /\ UNCHANGED <<sortVars, fitVars, argVars, duration_ms, base_size, pal_frames,
                   output, opened, saves>>

\* line 52: every frame is converted to a palette image
SaveGifQuantize ==
    /\ pc = "save_gif"
    /\ ~NoFrames(frames)
    /\ pal_frames' = Quantized(frames)
    /\ pc' = "save"
    /\ UNCHANGED <<sortVars, fitVars, argVars, duration_ms, base_size, output, err,
                   opened, saves>>

\* line 53: pal_frames[0].save(output_path, ...) opens the output path for
\* writing, which creates the file or empties the one there
SaveGifOpen ==
    /\ pc = "save"
    /\ IF pal_frames = <<>>
       THEN /\ err' = "IndexError"
            /\ pc' = "failed"
            /\ UNCHANGED <<output, saves>>
       ELSE /\ output' = PartialFile
            /\ saves' = saves + 1
            /\ pc' = "writing"
            /\ err' = err
    /\ UNCHANGED <<sortVars, fitVars, argVars, duration_ms, base_size, pal_frames,
                   opened>>

\* lines 53-62, 83: every frame is written and the call returns
SaveGifWrite ==
    /\ pc = "writing"
    /\ output' = GifFile(pal_frames, duration_ms[1], loop)
    /\ pc' = "done"
    /\ UNCHANGED <<sortVars, fitVars, argVars, duration_ms, base_size, pal_frames,
                   err, opened, saves>>

\* lines 53-62: a write fails (the disk is full, the device is gone); the
\* library removes a file it created itself or leaves what it wrote, and a
\* file that was there before stays emptied or half written
SaveGifWriteFails ==
    /\ pc = "writing"
    /\ err' = "OSError"
    /\ pc' = "failed"
    /\ output' \in (IF output0 = AbsentFile THEN {AbsentFile, PartialFile}
                                             ELSE {PartialFile})
    /\ UNCHANGED <<sortVars, fitVars, argVars, duration_ms, base_size, pal_frames,
                   opened, saves>>

Next ==
    \/ MakeGifCollect
    \/ MakeGifNoImages
    \/ MakeGifDuration
    \/ LoadOpen
    \/ LoadOpenFails
    \/ LoadFit
    \/ LoadReturn
    \/ SaveGifNoFrames
    \/ SaveGifQuantize
    \/ SaveGifOpen
    \/ SaveGifWrite
    \/ SaveGifWriteFails

Spec == Init /\ [][Next]_vars

-----------------------------------------------------------------------------
(* Properties of the runs *)

IsMakeGif == call = "make_gif_from_folder"

\* the canvas of a run: the explicit size, else the size of the first image
Canvas == IF size # None THEN size ELSE frames[1].image

\* C2: every frame load_frames makes, the first included, has exactly the
\* canvas size, which is the explicit size if one was given and the size of
\* the first loaded image otherwise, and base_size stays that canvas while
\* the later frames are processed.
C2_FramesHaveCanvasSize ==
    (IsMakeGif /\ frames # <<>>) =>
        /\ base_size = Canvas
        /\ \A k \in 1..Len(frames) : frames[k].size = Canvas

\* load_frames has returned three frames for images of two sizes, with no
\* explicit size
C2_Witness ==
    /\ IsMakeGif
    /\ pc = "save_gif"
    /\ size = None
    /\ Len(frames) = 3
    /\ frames[1].image = <<8, 4>>
    /\ frames[2].image = <<5, 5>>
    /\ frames[3].image = <<5, 5>>

\* the duration has been resolved
DurationResolved == pc \in {"load", "fit", "save_gif", "save", "writing", "done"}

\* a / b rounded to the nearest integer, a tie to the even one (Python's round)
RoundRatio(a, b) ==
    IF 2 * (a % b) < b THEN a \div b
    ELSE IF 2 * (a % b) > b THEN (a \div b) + 1
    ELSE IF (a \div b) % 2 = 0 THEN a \div b
    ELSE (a \div b) + 1

ExpectedDuration(rounded) ==
    IF fps # None /\ fps[1] > 0
    THEN Some(IF rounded THEN RoundRatio(1000 * fps[2], fps[1])
                         ELSE (1000 * fps[2]) \div fps[1])
    ELSE IF arg_duration_ms = None THEN Some(100)
    ELSE arg_duration_ms

\* C3 as stated: a positive fps gives round(1000 / fps) whatever duration_ms was
\* passed; otherwise the explicit duration_ms, and 100 when there is none.
C3_DurationRounded ==
    (IsMakeGif /\ DurationResolved) => duration_ms = ExpectedDuration(TRUE)

\* C3 as amended: a positive fps gives 1000 / fps truncated toward zero
\* whatever duration_ms was passed; otherwise the explicit duration_ms, and
\* 100 when there is none.
C3_DurationTruncated ==
    (IsMakeGif /\ DurationResolved) => duration_ms = ExpectedDuration(FALSE)

\* fps = 3.5 with duration_ms = 1000: the GIF is written with 285 ms a frame
C3_Witness ==
    /\ IsMakeGif
    /\ pc = "done"
    /\ fps = <<7, 2>>
    /\ arg_duration_ms = Some(1000)
    /\ duration_ms = Some(285)
    /\ output.frames[1].duration = 285

\* C4: when no file of the directory matches the patterns, the run fails with
\* FileNotFoundError and no image is ever opened, Image.save is never called
\* and the output path is left as it was.
C4_EmptyDirectoryFailsFirst ==
    (IsMakeGif /\ MatchingFiles(listing) = {}) =>
        /\ pc \in {"start", "check", "failed"}
        /\ pc = "failed" => err = "FileNotFoundError"
        /\ opened = 0
        /\ saves = 0
        /\ frames = <<>>
        /\ pal_frames = <<>>
        /\ output = output0

\* a directory that holds only a.txt: the run has failed
C4_Witness ==
    /\ IsMakeGif
    /\ listing = << <<97>> \o ExtTxt >>
    /\ pc = "failed"
    /\ err = "FileNotFoundError"
    /\ opened = 0

C7_NoPartialOutput == pc = "failed" => output.state # "partial"

\* C8: with an explicit size whose width or height is <= 0, load_frames makes
\* no frame and the run fails with no output file written.
C8_InvalidSizeRejected ==
    (IsMakeGif /\ size # None /\ (size[1] <= 0 \/ size[2] <= 0)) =>
        /\ frames = <<>>
        /\ pc # "done"
        /\ output = output0

\* C9: save_gif called with no frames fails with ValueError before any frame
\* is converted or Image.save is called, and the output path is left as it was.
C9_NoFramesFails ==
    (call = "save_gif" /\ frames = <<>>) =>
        /\ pc \in {"save_gif", "failed"}
        /\ pc = "failed" => err = "ValueError"
        /\ pal_frames = <<>>
        /\ saves = 0
        /\ output = output0

\* save_gif was called with no frames while a file was at the output path
C9_Witness ==
    /\ call = "save_gif"
    /\ frames = <<>>
    /\ pc = "failed"
    /\ err = "ValueError"
    /\ output0 = OldFile
    /\ output = OldFile

=============================================================================
